---- MODULE Spec2Model ----
(***************************************************************************)
(* nsjail - config parsing (config.cc).                                    *)
(*                                                                         *)
(* parseFile() decodes a text file into the function-static protobuf       *)
(* message `nsc` and hands it to configParseInternal(), which walks the    *)
(* message once and writes the caller's nsjconf_t field by field, in       *)
(* place.  The model keeps the caller's structure, the two function-static *)
(* objects (`nsc` in parseFile, the `argv` vector in configParseInternal)  *)
(* and a record of the latest call.                                        *)
(***************************************************************************)
EXTENDS Integers, Sequences, FiniteSets, TLC

(***************************************************************************)
(* Bounds of the model.                                                    *)
(***************************************************************************)
MaxCalls == 2      \* parseFile calls in one process
MaxCaps == 2       \* declared capability names

(***************************************************************************)
(* Optional protobuf fields and nullable pointers: <<>> is "not set" /     *)
(* NULL, <<v>> is "set to v".                                              *)
(***************************************************************************)
NULL == <<>>
Some(v) == <<v>>
Has(f) == f # <<>>
Val(f) == f[1]

SeqsUpTo(S, n) == UNION {[1..k -> S] : k \in 0..n}

(***************************************************************************)
(* uint64_t, as eight little-endian 8-bit limbs.  Products are also        *)
(* computed to sixteen limbs, which is wide enough never to wrap.          *)
(***************************************************************************)
LimbBase == 256
U64Limbs == 8
WideLimbs == 2 * U64Limbs

RECURSIVE ColSum(_, _, _, _)
\* sum of a[j] * b[k + 1 - j] for j in 1..i (the k-th column of the product)
ColSum(a, b, k, i) ==
    IF i = 0 THEN 0
    ELSE (IF i <= Len(a) /\ k + 1 - i >= 1 /\ k + 1 - i <= Len(b)
             THEN a[i] * b[k + 1 - i] ELSE 0)
         + ColSum(a, b, k, i - 1)

RECURSIVE MulCols(_, _, _, _, _)
MulCols(a, b, k, carry, n) ==
    IF k > n THEN <<>>
    ELSE LET s == carry + ColSum(a, b, k, k)
         IN  <<s % LimbBase>> \o MulCols(a, b, k + 1, s \div LimbBase, n)

\* a * b truncated to n limbs, i.e. modulo 2^(8 n)
MulLimbs(a, b, n) == MulCols(a, b, 1, 0, n)

Extend(a, n) == [i \in 1..n |-> IF i <= Len(a) THEN a[i] ELSE 0]

\* small numbers as uint64_t
U64(n) == Extend(<<n % LimbBase, (n \div LimbBase) % LimbBase,
                   (n \div (LimbBase * LimbBase)) % LimbBase>>, U64Limbs)

\* 2^44 - 1, 2^44 and 2^64 - 1
U64_2p44m1 == <<255, 255, 255, 255, 255, 15, 0, 0>>
U64_2p44 == <<0, 0, 0, 0, 0, 16, 0, 0>>
U64_MAX == [i \in 1..U64Limbs |-> LimbBase - 1]

RLIM64_INFINITY == U64_MAX

\* 1UL and 1024UL * 1024UL
MulOne == U64(1)
MulMiB == MulLimbs(U64(1024), U64(1024), U64Limbs)

\* the magnitudes the config files declare
LimitValues == {U64(0), U64(1), U64(7), U64_2p44m1, U64_2p44, U64_MAX}

\* val * mul in uint64_t, and in unbounded arithmetic, tabulated once for the
\* operands that occur
Times64 ==
    [val \in LimitValues, mul \in {MulOne, MulMiB} |-> MulLimbs(val, mul, U64Limbs)]

TimesExact ==
    [val \in LimitValues, mul \in {MulOne, MulMiB} |-> MulLimbs(val, mul, WideLimbs)]

(***************************************************************************)
(* State.                                                                  *)
(***************************************************************************)
VARIABLES
    nsjconf,     \* the nsjconf_t the caller passed to the latest call
    held,        \* <<r>>: the nsjconf_t an earlier call filled, still held by the caller
    nsc,         \* parseFile's static NsJailConfig: <<>> before the first decode
    nsc_gen,     \* generation of nsc's string storage (c_str() pointers into it)
    argv,        \* configParseInternal's static std::vector<const char*>
    argv_buf,    \* generation of argv's heap buffer (what argv.data() points to)
    rlim,        \* the process's current limits, as the limits query reports them
    last,        \* the latest parseFile call: its input, its result, the calls it
                 \* made; prev_same: the call before it compiled the same message,
                 \* successfully, into a newly constructed structure
    ncalls,      \* parseFile calls so far
    exec_runs,   \* calls so far that reached the exec builder
    dir          \* the directory this run reads its config files from

vars == <<nsjconf, held, nsc, nsc_gen, argv, argv_buf, rlim, last, ncalls, exec_runs,
          dir>>

(***************************************************************************)
(* Resource limits.                                                        *)
(***************************************************************************)
ByteKinds == {"RLIMIT_AS", "RLIMIT_CORE", "RLIMIT_FSIZE", "RLIMIT_STACK"}
CountKinds == {"RLIMIT_CPU", "RLIMIT_NOFILE", "RLIMIT_NPROC"}
Kinds == ByteKinds \cup CountKinds

RLimitTypes == {"VALUE", "SOFT", "HARD", "INF"}

\* cmdline::parseRLimit(res, "soft" | "hard", mul): the process's live ceiling
parseRLimit(lim, res, which, mul) ==
    IF which = "soft" THEN lim[res].soft ELSE lim[res].hard

configRLimit(lim, res, rl, val, mul) ==
    CASE rl = "VALUE" -> Times64[val, mul]
      [] rl = "SOFT" -> parseRLimit(lim, res, "soft", mul)
      [] rl = "HARD" -> parseRLimit(lim, res, "hard", mul)
      [] rl = "INF" -> RLIM64_INFINITY

\* the multiplier each call site passes (lines 151-162)
RLimitMul(res) == IF res \in ByteKinds THEN MulMiB ELSE MulOne

(***************************************************************************)
(* Collaborators outside config.cc.                                        *)
(***************************************************************************)
\* caps::nameToVal: the capability's number, -1 for a name it does not know
nameToVal(name) ==
    CASE name = "CAP_CHOWN" -> 0
      [] name = "CAP_KILL" -> 5
      [] name = "CAP_NET_ADMIN" -> 12
      [] OTHER -> -1

\* user::parseId: validates one id-map entry; on success it is appended to
\* the uid or gid list of nsjconf
IdEntry(inside, outside, count, is_gid, use_newidmap) ==
    [inside_id |-> inside, outside_id |-> outside, count |-> count,
     is_gid |-> is_gid, is_newidmap |-> use_newidmap]

parseId(conf, e) ==
    IF e.is_gid THEN [conf EXCEPT !.gids = Append(@, e)]
    ELSE [conf EXCEPT !.uids = Append(@, e)]

\* mnt::addMountPtTail: on success one mount point is appended at the tail
addMountPtTail(conf, m) == [conf EXCEPT !.mountpts = Append(@, m)]

(***************************************************************************)
(* nsjconf_t as the caller constructs it, before any config file is read.  *)
(***************************************************************************)
NsjconfInit ==
    [mode |-> "MODE_STANDALONE_ONCE", chroot |-> "", is_root_rw |-> FALSE,
     hostname |-> "NSJAIL", logfile |-> <<>>, loglevel |-> "INFO",
     keep_env |-> FALSE, envs |-> <<>>, keep_caps |-> FALSE, caps |-> <<>>,
     is_silent |-> FALSE, openfds |-> <<>>,
     rl |-> [k \in Kinds |-> U64(0)],
     personality |-> {}, clone |-> {},
     uids |-> <<>>, gids |-> <<>>,
     proc_path |-> "/proc", mountpts |-> <<>>,
     kafel_file_path |-> "", kafel_string |-> <<>>,
     cgroup_mem_max |-> 0, iface_lo |-> TRUE, iface_vs |-> "",
     exec_file |-> NULL, argv |-> NULL, use_execveat |-> FALSE]

(***************************************************************************)
(* configParseInternal, top to bottom.  Each stage takes the call's        *)
(* context (`ok` is false once the function has returned false) and the    *)
(* decoded message; ctx.conf is *nsjconf, written in place.                *)
(*   env.lim        the process's limits                                   *)
(*   env.idReject   which parseId call the validator rejects (0: none)     *)
(*   env.mntReject  which addMountPtTail call is rejected (0: none)        *)
(*   env.realloc    whether growing the static vector moves its buffer     *)
(*   env.gen        generation of the strings of the message               *)
(***************************************************************************)
Ctx(conf, av, buf) ==
    [ok |-> TRUE, fail |-> "none", conf |-> conf, argv |-> av, argv_buf |-> buf,
     lookups |-> <<>>, id_calls |-> <<>>, mnt_calls |-> <<>>]

ReturnFalse(ctx, why) == [ctx EXCEPT !.ok = FALSE, !.fail = why]

\* a c_str() pointer into the message, and nullptr
Ptr(gen, str) == [gen |-> gen, s |-> str]
nullptr == [gen |-> 0, s |-> ""]

KnownModes == {"LISTEN", "ONCE", "RERUN", "EXECVE"}

\* lines 69-85
StageMode(ctx, njc) ==
    CASE njc.mode = "LISTEN" -> [ctx EXCEPT !.conf.mode = "MODE_LISTEN_TCP"]
      [] njc.mode = "ONCE" -> [ctx EXCEPT !.conf.mode = "MODE_STANDALONE_ONCE"]
      [] njc.mode = "RERUN" -> [ctx EXCEPT !.conf.mode = "MODE_STANDALONE_RERUN"]
      [] njc.mode = "EXECVE" -> [ctx EXCEPT !.conf.mode = "MODE_STANDALONE_EXECVE"]
      [] OTHER -> ReturnFalse(ctx, "mode")

\* lines 86-97 (hostname stands for the unconditional copies of lines 90-97)
StageBasic(ctx, njc) ==
    IF ~ctx.ok THEN ctx
    ELSE [ctx EXCEPT
            !.conf.chroot = IF Has(njc.chroot_dir) THEN Val(njc.chroot_dir) ELSE @,
            !.conf.is_root_rw = njc.is_root_rw,
            !.conf.hostname = njc.hostname]

KnownLogLevels == {"DEBUG", "INFO", "WARNING", "ERROR", "FATAL"}

\* lines 99-126
StageLog(ctx, njc) ==
    IF ~ctx.ok THEN ctx
    ELSE LET c1 == IF Has(njc.log_fd)
                   THEN [ctx EXCEPT !.conf.logfile = <<"/dev/fd/", Val(njc.log_fd)>>]
                   ELSE ctx
             c2 == IF Has(njc.log_file)
                   THEN [c1 EXCEPT !.conf.logfile = <<Val(njc.log_file)>>]
                   ELSE c1
         IN  IF ~Has(njc.log_level) THEN c2
             ELSE IF Val(njc.log_level) \in KnownLogLevels
                  THEN [c2 EXCEPT !.conf.loglevel = Val(njc.log_level)]
                  ELSE ReturnFalse(c2, "log_level")

\* lines 128-131
StageEnv(ctx, njc) ==
    IF ~ctx.ok THEN ctx
    ELSE [ctx EXCEPT !.conf.keep_env = njc.keep_env,
                     !.conf.envs = @ \o njc.envar]

RECURSIVE CapLoop(_, _, _)
\* the loop of lines 134-140, from index i on
CapLoop(ctx, njc, i) ==
    IF i > Len(njc.cap) THEN ctx
    ELSE LET cap == nameToVal(njc.cap[i])
             c1 == [ctx EXCEPT !.lookups = Append(@, njc.cap[i])]
         IN  IF cap = -1 THEN ReturnFalse(c1, "cap")
             ELSE CapLoop([c1 EXCEPT !.conf.caps = Append(@, cap)], njc, i + 1)

StageCaps_OnlyIfNotKeep(ctx, njc) ==
    IF ~ctx.ok THEN ctx
    ELSE IF njc.keep_caps THEN [ctx EXCEPT !.conf.keep_caps = TRUE]
         ELSE CapLoop([ctx EXCEPT !.conf.keep_caps = FALSE], njc, 1)

\* lines 133-140
StageCaps(ctx, njc) ==
    IF ~ctx.ok THEN ctx
    ELSE CapLoop([ctx EXCEPT !.conf.keep_caps = njc.keep_caps], njc, 1)

\* lines 142-149: the loop pushes the index i, not pass_fd(i)
StageFds(ctx, njc) ==
    IF ~ctx.ok THEN ctx
    ELSE [ctx EXCEPT
            !.conf.is_silent = njc.silent,
            !.conf.openfds = @ \o [i \in 1..Len(njc.pass_fd) |-> i - 1]]

\* lines 151-162
StageRLimits(ctx, njc, env) ==
    IF ~ctx.ok THEN ctx
    ELSE [ctx EXCEPT !.conf.rl =
            [k \in Kinds |->
                configRLimit(env.lim, k, njc.rlimit_type[k], njc.rlimit[k],
                             RLimitMul(k))]]

\* lines 164-186: personality bits are or-ed in, namespace flags are assigned
StageFlags(ctx, njc) ==
    IF ~ctx.ok THEN ctx
    ELSE [ctx EXCEPT !.conf.personality = @ \cup njc.persona,
                     !.conf.clone = njc.clone]

RECURSIVE IdLoop(_, _, _, _, _)
\* the loops of lines 188-194 (is_gid false) and 195-201 (is_gid true)
IdLoop(ctx, maps, is_gid, i, env) ==
    IF i > Len(maps) THEN ctx
    ELSE LET e == IdEntry(maps[i].inside_id, maps[i].outside_id, maps[i].count,
                          is_gid, maps[i].use_newidmap)
             c1 == [ctx EXCEPT !.id_calls = Append(@, e)]
         IN  IF Len(c1.id_calls) = env.idReject
             THEN ReturnFalse(c1, IF is_gid THEN "gidmap" ELSE "uidmap")
             ELSE IdLoop([c1 EXCEPT !.conf = parseId(@, e)], maps, is_gid, i + 1, env)

\* lines 188-201
StageIdMaps(ctx, njc, env) ==
    IF ~ctx.ok THEN ctx
    ELSE LET c1 == IdLoop(ctx, njc.uidmap, FALSE, 1, env)
         IN  IF ~c1.ok THEN c1 ELSE IdLoop(c1, njc.gidmap, TRUE, 1, env)

\* lines 203-205
StageProc(ctx, njc) ==
    IF ~ctx.ok THEN ctx
    ELSE IF ~njc.mount_proc THEN [ctx EXCEPT !.conf.proc_path = ""] ELSE ctx

\* lines 220-221: the mount flag word, as the set of its bits
MountFlags(m) ==
    (IF m.rw = FALSE THEN {"MS_RDONLY"} ELSE {})
    \cup (IF m.is_bind THEN {"MS_BIND", "MS_REC", "MS_PRIVATE"} ELSE {})

\* lines 224-227
MountIsDir(m) ==
    IF Has(m.is_dir)
    THEN (IF Val(m.is_dir) THEN "NS_DIR_YES" ELSE "NS_DIR_NO")
    ELSE "NS_DIR_MAYBE"

MountArgs_Precedence(m) ==
    [src |-> m.src,
     dst |-> m.dst,
     fstype |-> m.fstype,
     options |-> m.options,
     flags |-> MountFlags(m),
     isDir |-> MountIsDir(m),
     mandatory |-> m.mandatory,
     src_env |-> IF Has(m.src) \/ Has(m.src_content) THEN NULL ELSE m.prefix_src_env,
     dst_env |-> m.prefix_dst_env,
     src_content |-> IF Has(m.src) THEN NULL ELSE m.src_content,
     src_content_len |-> IF Has(m.src_content) /\ ~Has(m.src)
                         THEN Len(Val(m.src_content)) ELSE 0,
     is_symlink |-> m.is_symlink]

\* lines 207-238: the arguments of the addMountPtTail call for one mount
MountArgs(m) ==
    [src |-> m.src,
     dst |-> m.dst,
     fstype |-> m.fstype,
     options |-> m.options,
     flags |-> MountFlags(m),
     isDir |-> MountIsDir(m),
     mandatory |-> m.mandatory,
     src_env |-> m.prefix_src_env,
     dst_env |-> m.prefix_dst_env,
     src_content |-> m.src_content,
     src_content_len |-> IF Has(m.src_content) THEN Len(Val(m.src_content)) ELSE 0,
     is_symlink |-> m.is_symlink]

RECURSIVE MountLoop(_, _, _, _)
\* the loop of lines 206-242, from index i on
MountLoop(ctx, njc, i, env) ==
    IF i > Len(njc.mount) THEN ctx
    ELSE LET a == MountArgs(njc.mount[i])
             c1 == [ctx EXCEPT !.mnt_calls = Append(@, a)]
         IN  IF Len(c1.mnt_calls) = env.mntReject
             THEN ReturnFalse(c1, "mount")
             ELSE MountLoop([c1 EXCEPT !.conf = addMountPtTail(@, a)], njc, i + 1, env)

RECURSIVE MountLoopDown(_, _, _, _)
MountLoopDown(ctx, njc, i, env) ==
    IF i < 1 THEN ctx
    ELSE LET a == MountArgs(njc.mount[i])
             c1 == [ctx EXCEPT !.mnt_calls = Append(@, a)]
         IN  IF Len(c1.mnt_calls) = env.mntReject
             THEN ReturnFalse(c1, "mount")
             ELSE MountLoopDown([c1 EXCEPT !.conf = addMountPtTail(@, a)], njc,
                                i - 1, env)

StageMounts_Reversed(ctx, njc, env) ==
    IF ~ctx.ok THEN ctx ELSE MountLoopDown(ctx, njc, Len(njc.mount), env)

StageMounts_SkipProcDst(ctx, njc, env) ==
    IF ~ctx.ok THEN ctx
    ELSE MountLoop(ctx,
                   [njc EXCEPT !.mount =
                       IF njc.mount_proc THEN @
                       ELSE SelectSeq(@, LAMBDA m : m.dst # Some(ctx.conf.proc_path)
                                                    /\ m.dst # Some("/proc"))],
                   1, env)

\* lines 206-242
StageMounts(ctx, njc, env) ==
    IF ~ctx.ok THEN ctx ELSE MountLoop(ctx, njc, 1, env)

\* lines 244-268 (cgroup_mem_max stands for the unconditional copies of
\* lines 252-260 and 266-268)
StageRest(ctx, njc) ==
    IF ~ctx.ok THEN ctx
    ELSE [ctx EXCEPT
            !.conf.kafel_file_path =
                IF Has(njc.seccomp_policy_file) THEN Val(njc.seccomp_policy_file) ELSE @,
            !.conf.kafel_string = @ \o njc.seccomp_string,
            !.conf.cgroup_mem_max = njc.cgroup_mem_max,
            !.conf.iface_lo = ~njc.iface_no_lo,
            !.conf.iface_vs =
                IF Has(njc.macvlan_iface) THEN Val(njc.macvlan_iface) ELSE @]

\* lines 272-281: what one call pushes onto the static vector
ExecPushed_PathFirst(e, gen) ==
    <<Ptr(gen, e.path)>>
    \o [i \in 1..Len(e.arg) |-> Ptr(gen, e.arg[i])]
    \o <<nullptr>>

ExecPushed(e, gen) ==
    <<IF Has(e.arg0) THEN Ptr(gen, Val(e.arg0)) ELSE Ptr(gen, e.path)>>
    \o [i \in 1..Len(e.arg) |-> Ptr(gen, e.arg[i])]
    \o <<nullptr>>

\* lines 270-284.  The vector is static: it is never cleared, and argv.data()
\* is its buffer, which moves when the vector outgrows its capacity.
StageExec(ctx, njc, env) ==
    IF ~ctx.ok \/ ~Has(njc.exec_bin) THEN ctx
    ELSE LET e == Val(njc.exec_bin)
             buf == IF ctx.argv = <<>> \/ env.realloc
                    THEN ctx.argv_buf + 1 ELSE ctx.argv_buf
         IN  [ctx EXCEPT
                !.argv = @ \o ExecPushed(e, env.gen),
                !.argv_buf = buf,
                !.conf.exec_file = IF Has(e.arg0) THEN Some(Ptr(env.gen, e.path)) ELSE @,
                !.conf.argv = Some(buf),
                !.conf.use_execveat = e.exec_fd]

\* lines 68-287
configParseInternal(conf, njc, av, buf, env) ==
    LET c0 == StageMode(Ctx(conf, av, buf), njc)
        c1 == StageBasic(c0, njc)
        c2 == StageLog(c1, njc)
        c3 == StageEnv(c2, njc)
        c4 == StageCaps(c3, njc)
        c5 == StageFds(c4, njc)
        c6 == StageRLimits(c5, njc, env)
        c7 == StageFlags(c6, njc)
        c8 == StageIdMaps(c7, njc, env)
        c9 == StageProc(c8, njc)
        c10 == StageMounts(c9, njc, env)
        c11 == StageRest(c10, njc)
    IN  StageExec(c11, njc, env)

(***************************************************************************)
(* Decoded messages (nsjail::NsJailConfig) the model reads.                *)
(***************************************************************************)
DefaultMount ==
    [src |-> Some("/src"), prefix_src_env |-> NULL, dst |-> Some("/tmp"),
     prefix_dst_env |-> NULL, fstype |-> NULL, options |-> NULL,
     rw |-> FALSE, is_bind |-> FALSE, mandatory |-> TRUE, is_dir |-> NULL,
     src_content |-> NULL, is_symlink |-> FALSE]

DefaultConfig ==
    [mode |-> "ONCE", chroot_dir |-> NULL, is_root_rw |-> FALSE,
     hostname |-> "NSJAIL", log_fd |-> NULL, log_file |-> NULL, log_level |-> NULL,
     keep_env |-> FALSE, envar |-> <<>>, keep_caps |-> FALSE, cap |-> <<>>,
     silent |-> FALSE, pass_fd |-> <<>>,
     rlimit_type |-> [k \in Kinds |-> "VALUE"],
     rlimit |-> [k \in Kinds |-> U64(1)],
     persona |-> {}, clone |-> {"clone_newnet", "clone_newns", "clone_newpid"},
     uidmap |-> <<>>, gidmap |-> <<>>,
     mount_proc |-> TRUE, mount |-> <<>>,
     seccomp_policy_file |-> NULL, seccomp_string |-> <<>>,
     cgroup_mem_max |-> 0, iface_no_lo |-> FALSE, macvlan_iface |-> NULL,
     exec_bin |-> NULL]

\* run mode and the plain copies
ModeConfigs ==
    {[DefaultConfig EXCEPT !.mode = m,
                           !.hostname = IF m = "LISTEN" THEN "jail" ELSE @,
                           !.chroot_dir = IF m = "RERUN" THEN Some("/chroot") ELSE @,
                           !.is_root_rw = (m = "EXECVE")] :
        m \in KnownModes \cup {"MODE_99"}}

\* log target and level
LogConfigs ==
    {[DefaultConfig EXCEPT !.log_level = l, !.log_fd = t.fd, !.log_file = t.file] :
        l \in {NULL, Some("DEBUG"), Some("LEVEL_99")},
        t \in {[fd |-> NULL, file |-> NULL], [fd |-> Some(2), file |-> NULL],
               [fd |-> Some(2), file |-> Some("/var/log/nsjail")]}}

CapNames == {"CAP_CHOWN", "CAP_KILL", "CAP_BOGUS"}

\* lists of capability names that name no capability twice
CapLists ==
    {names \in SeqsUpTo(CapNames, MaxCaps) :
        \A i, j \in 1..Len(names) : names[i] = names[j] => i = j}

CapConfigs(keep) ==
    {[DefaultConfig EXCEPT !.keep_caps = keep, !.cap = names,
                           !.mode = IF keep THEN "LISTEN" ELSE "ONCE"] :
        names \in CapLists}

\* environment, descriptors, personality, seccomp and id maps
IdMap(inside, count) ==
    [inside_id |-> inside, outside_id |-> Some("1000"), count |-> count,
     use_newidmap |-> FALSE]

ListConfigs ==
    {[DefaultConfig EXCEPT !.envar = ev,
                           !.pass_fd = IF ev = <<>> THEN <<7, 9>> ELSE <<>>,
                           !.persona = IF ev = <<>> THEN {} ELSE {"ADDR_NO_RANDOMIZE"},
                           !.seccomp_string = IF ev = <<>> THEN <<>> ELSE <<"ALLOW {", "}">>,
                           !.uidmap = um, !.gidmap = gm] :
        ev \in {<<>>, <<"A=1", "B=2">>},
        um \in {<<>>, <<IdMap(Some("0"), 1)>>},
        gm \in {<<>>, <<IdMap(NULL, 1), IdMap(Some("5"), 2)>>}}

RLimitConfigs(kind) ==
    {[DefaultConfig EXCEPT !.rlimit_type[kind] = t, !.rlimit[kind] = v] :
        t \in RLimitTypes, v \in LimitValues \ {U64(0), U64(1)}}

FlagMount(w, b, m, d) ==
    [DefaultMount EXCEPT !.dst = Some("/proc"), !.rw = w, !.is_bind = b,
                         !.mandatory = m, !.is_dir = d]

\* the two mounts the files of one directory are written with
MountPool(d) ==
    CASE d = "mount-src-none" ->
            <<[DefaultMount EXCEPT !.src = NULL],
              [DefaultMount EXCEPT !.src = NULL, !.src_content = Some(<<"x", "y">>)]>>
      [] d = "mount-src-env" ->
            <<[DefaultMount EXCEPT !.src = NULL, !.prefix_src_env = Some("HOME")],
              [DefaultMount EXCEPT !.src = NULL, !.prefix_src_env = Some("HOME"),
                                   !.src_content = Some(<<"x", "y">>)]>>
      [] d = "mount-src-literal" ->
            <<DefaultMount,
              [DefaultMount EXCEPT !.src_content = Some(<<"x", "y">>)]>>
      [] d = "mount-src-literal-env" ->
            <<[DefaultMount EXCEPT !.prefix_src_env = Some("HOME")],
              [DefaultMount EXCEPT !.prefix_src_env = Some("HOME"),
                                   !.src_content = Some(<<"x", "y">>)]>>
      [] d = "mount-ro" ->
            <<FlagMount(FALSE, FALSE, FALSE, NULL), FlagMount(FALSE, FALSE, TRUE, NULL)>>
      [] d = "mount-rw" ->
            <<FlagMount(TRUE, FALSE, FALSE, NULL), FlagMount(TRUE, FALSE, TRUE, NULL)>>
      [] d = "mount-ro-bind" ->
            <<FlagMount(FALSE, TRUE, FALSE, NULL), FlagMount(FALSE, TRUE, TRUE, NULL)>>
      [] d = "mount-rw-bind" ->
            <<FlagMount(TRUE, TRUE, FALSE, NULL), FlagMount(TRUE, TRUE, TRUE, NULL)>>
      [] d = "mount-dir" ->
            <<FlagMount(TRUE, FALSE, TRUE, Some(TRUE)),
              FlagMount(TRUE, FALSE, TRUE, Some(FALSE))>>

MountDirs ==
    {"mount-src-none", "mount-src-env", "mount-src-literal", "mount-src-literal-env",
     "mount-ro", "mount-rw", "mount-ro-bind", "mount-rw-bind", "mount-dir"}

MountConfigs(pool) ==
    {[DefaultConfig EXCEPT !.mount = ms, !.mount_proc = mp] :
        ms \in {<<>>, <<pool[1]>>, <<pool[1], pool[2]>>, <<pool[2], pool[1]>>},
        mp \in BOOLEAN}

ExecConfigs(a0) ==
    {DefaultConfig}
    \cup {[DefaultConfig EXCEPT !.exec_bin =
              Some([path |-> "/bin/sh", arg0 |-> a0, arg |-> args, exec_fd |-> fd])] :
            args \in {<<>>, <<"id">>, <<"-c", "id">>, <<"id", "-c">>},
            fd \in BOOLEAN}

(***************************************************************************)
(* The config files one run of the process can be pointed at: a directory  *)
(* is a set of files, each given by the message it decodes to.             *)
(***************************************************************************)
Dirs == {"mode", "log", "lists", "caps-keep", "caps-drop", "exec-path", "exec-arg0"}
            \cup Kinds \cup MountDirs

FilesIn(d) ==
    CASE d = "mode" -> ModeConfigs
      [] d = "lists" -> ListConfigs
      [] d = "caps-keep" -> CapConfigs(TRUE)
      [] d = "caps-drop" -> CapConfigs(FALSE)
      [] d = "log" -> LogConfigs
      [] d = "exec-path" -> ExecConfigs(NULL)
      [] d = "exec-arg0" -> ExecConfigs(Some("shell"))
      [] d \in Kinds -> RLimitConfigs(d)
      [] d \in MountDirs -> MountConfigs(MountPool(d))

\* what the limits query reports for this process
Limits ==
    [k \in Kinds |->
        IF k \in ByteKinds THEN [soft |-> U64(8388608), hard |-> U64_MAX]
        ELSE [soft |-> U64(1024), hard |-> U64(4096)]]

NoCall ==
    [ret |-> FALSE, fail |-> "never", njc |-> NULL, pre |-> NsjconfInit,
     fresh |-> FALSE, prev_same |-> FALSE,
     lookups |-> <<>>, id_calls |-> <<>>, mnt_calls |-> <<>>]

Init ==
    /\ dir \in Dirs
    /\ rlim = Limits
    /\ nsjconf = NsjconfInit
    /\ held = <<>>
    /\ nsc = NULL
    /\ nsc_gen = 0
    /\ argv = <<>>
    /\ argv_buf = 0
    /\ last = NoCall
    /\ ncalls = 0
    /\ exec_runs = 0

\* parseFile, lines 297-301: the file cannot be opened
OpenFails ==
    /\ ncalls < MaxCalls
    /\ last' = [NoCall EXCEPT !.fail = "open", !.pre = nsjconf]
    /\ ncalls' = ncalls + 1
    /\ UNCHANGED <<nsjconf, held, nsc, nsc_gen, argv, argv_buf, rlim, exec_runs, dir>>

\* parseFile, lines 303-314: the text does not decode.  Parse() clears the
\* static message first, so c_str() pointers taken from it earlier go stale;
\* nothing reads what the failed decode left in it.
DecodeFails ==
    /\ ncalls < MaxCalls
    /\ nsc' = NULL
    /\ nsc_gen' = nsc_gen + 1
    /\ last' = [NoCall EXCEPT !.fail = "decode", !.pre = nsjconf]
    /\ ncalls' = ncalls + 1
    /\ UNCHANGED <<nsjconf, held, argv, argv_buf, rlim, exec_runs, dir>>

\* parseFile, lines 303-321: the text decodes to f and is compiled into the
\* caller's structure: the one of the call before, or a newly constructed one
Compile(f, fresh, idReject, mntReject, realloc) ==
    /\ ncalls < MaxCalls
    /\ fresh => ncalls > 0
    /\ LET conf0 == IF fresh THEN NsjconfInit ELSE nsjconf
           env == [lim |-> rlim, idReject |-> idReject, mntReject |-> mntReject,
                   realloc |-> realloc, gen |-> nsc_gen + 1]
       IN  \E r \in {configParseInternal(conf0, f, argv, argv_buf, env)} :
           /\ nsjconf' = r.conf
           /\ held' = IF fresh THEN <<nsjconf>> ELSE held
           /\ argv' = r.argv
           /\ argv_buf' = r.argv_buf
           /\ last' = [ret |-> r.ok, fail |-> r.fail, njc |-> Some(f), pre |-> conf0,
                       fresh |-> fresh,
                       prev_same |-> last.ret /\ last.njc = Some(f)
                                     /\ last.pre = NsjconfInit,
                       lookups |-> r.lookups,
                       id_calls |-> r.id_calls, mnt_calls |-> r.mnt_calls]
           /\ exec_runs' = IF r.ok /\ Has(f.exec_bin) THEN exec_runs + 1 ELSE exec_runs
    /\ nsc' = Some(f)
    /\ nsc_gen' = nsc_gen + 1
    /\ ncalls' = ncalls + 1
    /\ UNCHANGED <<rlim, dir>>

ParseFile ==
    \E f \in FilesIn(dir), fresh \in BOOLEAN :
        \E idReject \in 0..(Len(f.uidmap) + Len(f.gidmap)),
           mntReject \in 0..Len(f.mount),
           realloc \in (IF Has(f.exec_bin) /\ argv # <<>> THEN BOOLEAN ELSE {FALSE}) :
            Compile(f, fresh, idReject, mntReject, realloc)

Next == OpenFails \/ DecodeFails \/ ParseFile

Spec == Init /\ [][Next]_vars

(***************************************************************************)
(* Reading the results.                                                    *)
(***************************************************************************)
\* the latest call decoded its file and ran configParseInternal
Compiled == last.fail \notin {"never", "open", "decode"}

\* ... and configParseInternal got as far as line 133 / 151 / 203
ReachedCaps == Compiled /\ last.fail \notin {"mode", "log_level"}
ReachedRLimits == ReachedCaps /\ last.fail # "cap"
ReachedMounts == last.fail \in {"none", "mount"}

njcLast == Val(last.njc)

RECURSIVE UpToNull(_)
\* a const char* array read up to its null terminator
UpToNull(av) ==
    IF av = <<>> \/ Head(av) = nullptr THEN <<>>
    ELSE <<Head(av)>> \o UpToNull(Tail(av))

\* Reading through conf.argv yields exactly strs, then the terminator.  A
\* pointer into a buffer that has since been freed or rewritten may read as
\* anything, so this holds only if conf.argv still points at the vector's
\* buffer and every entry before the terminator points into the strings of
\* the message as last decoded.
ReadsExactly(conf, strs) ==
    /\ Has(conf.argv)
    /\ Val(conf.argv) = argv_buf
    /\ LET ptrs == UpToNull(argv)
       IN  /\ Len(ptrs) = Len(strs)
           /\ Len(argv) > Len(ptrs)
           /\ \A i \in 1..Len(ptrs) : ptrs[i] = Ptr(nsc_gen, strs[i])

\* the invocation an exec descriptor declares
Invocation(e) == <<IF Has(e.arg0) THEN Val(e.arg0) ELSE e.path>> \o e.arg

RECURSIVE Resolved(_)
\* the numbers of the names before the first one the lookup does not know
Resolved(names) ==
    IF names = <<>> \/ nameToVal(Head(names)) = -1 THEN <<>>
    ELSE <<nameToVal(Head(names))>> \o Resolved(Tail(names))

HasUnknown(names) == \E i \in 1..Len(names) : nameToVal(names[i]) = -1

(***************************************************************************)
(* Claims.                                                                 *)
(***************************************************************************)

\* C1: whenever a compilation returns failure (unknown run mode, unknown log
\* level, unresolved capability name, id-map validator rejection or
\* mount-append rejection), the caller's runtime config is exactly as it was
\* before the call.
C1_FailureLeavesConfigUntouched ==
    last.fail \in {"mode", "log_level", "cap", "uidmap", "gidmap", "mount"}
        => nsjconf = last.pre

\* C2: compiling the same config twice, each time into a newly constructed
\* structure, yields two equal results: the capability, environment,
\* descriptor and mount lists of the second equal those of the first, both
\* invocation arrays read as the declared invocation, and the two results do
\* not point at the same array.
C2_TwiceYieldsEqualResults ==
    (last.ret /\ last.fresh /\ last.prev_same) =>
        LET r1 == Val(held)
            r2 == nsjconf
        IN  /\ r2.caps = r1.caps
            /\ r2.envs = r1.envs
            /\ r2.openfds = r1.openfds
            /\ r2.mountpts = r1.mountpts
            /\ Has(njcLast.exec_bin) =>
                  /\ ReadsExactly(r2, Invocation(Val(njcLast.exec_bin)))
                  /\ ReadsExactly(r1, Invocation(Val(njcLast.exec_bin)))
                  /\ r1.argv # r2.argv

\* C3: after any sequence of successful compilations whose configs all
\* declare an exec descriptor, the invocation array of the latest runtime
\* config is exactly the one derived from the latest config, with no entry
\* of an earlier compilation before it or in its place.
C3_RebuildReplaces ==
    (last.ret /\ Has(njcLast.exec_bin) /\ exec_runs = ncalls) =>
        ReadsExactly(nsjconf, Invocation(Val(njcLast.exec_bin)))

\* C4: the first compilation that builds an exec spec leaves the invocation
\* array [argv0, arg_1, ..., arg_n, null], argv0 being the argv[0] override if
\* given and the path otherwise; with an override the executed path is kept
\* in exec_file; the exec-via-descriptor flag is the declared one.
C4_FirstExecSpec ==
    (last.ret /\ Has(njcLast.exec_bin) /\ exec_runs = 1) =>
        LET e == Val(njcLast.exec_bin)
            n == Len(e.arg)
        IN  /\ ReadsExactly(nsjconf, Invocation(e))
            /\ argv[n + 2] = nullptr
            /\ Has(e.arg0) => nsjconf.exec_file = Some(Ptr(nsc_gen, e.path))
            /\ nsjconf.use_execveat = e.exec_fd

C4_Witness ==
    /\ last.ret
    /\ exec_runs = 1
    /\ Has(njcLast.exec_bin)
    /\ Val(njcLast.exec_bin).arg0 = Some("shell")
    /\ Val(njcLast.exec_bin).arg = <<"-c", "id">>
    /\ nsjconf.exec_file = Some(Ptr(nsc_gen, "/bin/sh"))
    /\ UpToNull(argv) = <<Ptr(nsc_gen, "shell"), Ptr(nsc_gen, "-c"), Ptr(nsc_gen, "id")>>

\* C5: each of the seven limits is resolved on its own: an explicit value M
\* yields exactly M x 1048576 for the byte kinds and exactly M for the
\* time/count kinds, for every 64-bit M; unbounded yields the no-limit
\* sentinel; inherit-soft / inherit-hard yields what the limits query
\* returns.
C5_LimitsExact ==
    ReachedRLimits =>
        \A k \in Kinds :
            LET t == njcLast.rlimit_type[k]
                M == njcLast.rlimit[k]
                got == nsjconf.rl[k]
            IN  /\ t = "VALUE" =>
                      Extend(got, WideLimbs) =
                          TimesExact[M, IF k \in ByteKinds THEN MulMiB ELSE MulOne]
                /\ t = "INF" => got = RLIM64_INFINITY
                /\ t = "SOFT" => got = rlim[k].soft
                /\ t = "HARD" => got = rlim[k].hard

\* C6: a declared capability name the lookup cannot resolve makes the
\* compilation fail and leaves in the capability list neither that entry
\* nor any capability declared before it; a successful compilation appends
\* exactly the resolved identifiers, in declaration order.
C6_NoPartialCapabilities ==
    ReachedCaps =>
        /\ HasUnknown(njcLast.cap) =>
              ~last.ret /\ nsjconf.caps = last.pre.caps
        /\ last.ret =>
              nsjconf.caps = last.pre.caps
                  \o [i \in 1..Len(njcLast.cap) |-> nameToVal(njcLast.cap[i])]

\* C7 as stated: with keep-all set, no name is looked up, the capability
\* list is left alone and an unresolvable name does not fail the compilation.
C7_NamesIgnoredWhenKeepAll ==
    (ReachedCaps /\ njcLast.keep_caps) =>
        /\ last.lookups = <<>>
        /\ nsjconf.caps = last.pre.caps
        /\ last.fail # "cap"

\* C7, amended: the declared names are looked up whatever keep-all says: the
\* names are looked up in order up to the first unresolvable one, the
\* resolved ones are appended, and an unresolvable name fails the
\* compilation, also when keep-all is set.
C7_NamesAlwaysResolved ==
    ReachedCaps =>
        LET known == Resolved(njcLast.cap)
            n == IF HasUnknown(njcLast.cap) THEN Len(known) + 1 ELSE Len(known)
        IN  /\ last.lookups = SubSeq(njcLast.cap, 1, n)
            /\ nsjconf.caps = last.pre.caps \o known
            /\ nsjconf.keep_caps = njcLast.keep_caps
            /\ (last.fail = "cap") = HasUnknown(njcLast.cap)

C7_Witness ==
    /\ ReachedCaps
    /\ njcLast.keep_caps
    /\ njcLast.cap = <<"CAP_KILL", "CAP_BOGUS">>
    /\ last.fail = "cap"
    /\ last.lookups = <<"CAP_KILL", "CAP_BOGUS">>
    /\ nsjconf.caps = last.pre.caps \o <<5>>

BindBits == {"MS_BIND", "MS_REC", "MS_PRIVATE"}

\* C8: a successful compilation of n declared mounts makes exactly n
\* tail-appends, the i-th for the i-th declared mount; the i-th operation is
\* read-only iff the writable toggle is unset, carries bind + recursive +
\* private iff the bind toggle is set, the mandatory flag verbatim, and a
\* directory hint of yes / no when declared and auto-detect otherwise.
C8_MountsInDeclarationOrder ==
    last.ret =>
        LET ms == njcLast.mount
            calls == last.mnt_calls
        IN  /\ Len(calls) = Len(ms)
            /\ \A i \in 1..Len(ms) :
                  /\ calls[i].dst = ms[i].dst
                  /\ calls[i].src = ms[i].src
                  /\ calls[i].src_content = ms[i].src_content
                  /\ ("MS_RDONLY" \in calls[i].flags) = ~ms[i].rw
                  /\ calls[i].flags \ {"MS_RDONLY"} =
                        (IF ms[i].is_bind THEN BindBits ELSE {})
                  /\ calls[i].mandatory = ms[i].mandatory
                  /\ calls[i].isDir =
                        (IF ~Has(ms[i].is_dir) THEN "NS_DIR_MAYBE"
                         ELSE IF Val(ms[i].is_dir) THEN "NS_DIR_YES" ELSE "NS_DIR_NO")

C8_Witness ==
    /\ last.ret
    /\ Len(njcLast.mount) = 2
    /\ njcLast.mount[1] # njcLast.mount[2]
    /\ Len(last.mnt_calls) = 2
    /\ last.mnt_calls[1].flags = {"MS_RDONLY"}
    /\ last.mnt_calls[1].src = Some("/src")
    /\ last.mnt_calls[1].mandatory # last.mnt_calls[2].mandatory

\* what the precedence literal path > inline content > env-prefixed path
\* would let through of a mount's three sources
Surfaced(m) ==
    [src |-> m.src,
     src_content |-> IF Has(m.src) THEN NULL ELSE m.src_content,
     src_env |-> IF Has(m.src) \/ Has(m.src_content) THEN NULL ELSE m.prefix_src_env]

C10_ProcToggleLeavesMounts ==
    ReachedMounts =>
        LET ms == njcLast.mount
            calls == last.mnt_calls
        IN  /\ nsjconf.proc_path = (IF njcLast.mount_proc THEN last.pre.proc_path ELSE "")
            /\ Len(calls) <= Len(ms)
            /\ last.ret => Len(calls) = Len(ms)
            /\ \A i \in 1..Len(calls) : calls[i].dst = ms[i].dst

C10_Witness ==
    /\ last.ret
    /\ ~njcLast.mount_proc
    /\ last.pre.proc_path = "/proc"
    /\ nsjconf.proc_path = ""
    /\ Len(njcLast.mount) = 2
    /\ Len(last.mnt_calls) = 2
    /\ last.mnt_calls[1].dst = Some("/proc")
    /\ last.mnt_calls[2].dst = Some("/proc")

====
